---- MODULE Spec2Model ----
(***************************************************************************)
(* sqlitehelper: the accessor root SH (connection, transaction flag,       *)
(* bounded retry of locked statements, schema creation), the query         *)
(* builders and the per-table accessor SH_sub, over a small model of the   *)
(* sqlite3 engine (catalog of tables, rows addressed by rowid).            *)
(***************************************************************************)
EXTENDS Integers, Sequences, FiniteSets

\* ------------------------------------------------------------------ bounds
\* Distinct cursor objects self._db.cursor() can hand out before an identity
\* is reused.
MaxHandles == 2
\* Tables a __schema__ declares, at most.
MaxTables == 2
\* Threads that share one SH object.
NumThreads == 2
\* Rows the employee table holds, at most (rowids 1..MaxRowId).
MaxRowId == 2
\* Rows the address table holds, at most.
MaxAddressRowId == 1

\* ------------------------------------------------------- program constants
\* "while cnt < 10" in SH._execute
RetryCap == 10
\* Python's None for the integer-valued fields (_cursor)
None == 0

\* The engine's NULL, for a column an INSERT does not name
NULL == -1
\* The str '?' the example passes as the value of rowid
QuestionMark == -2

\* The value of self._db while a connection is open / not open.
Connection == "Connection"
NoConnection == "None"

\* The tables of the example schema (src/test/employee.py).
TableNames == {"employee", "address"}
ExampleSchema == <<"employee", "address">>
\* A table declared without a DBColROWID column, and the example's tables.
NoKey == "None"
ExamplePKeys == [t \in TableNames |-> NoKey]

VARIABLES
    db,         \* SH._db: NoConnection or Connection
    rowfact,    \* SH._rowfact: the row factory stored by open()
    cursor,     \* SH._cursor: None, or the handle of the active transaction
    lastHandle, \* identity of the cursor object handed out last
    began,      \* handles begin() returned and no commit/rollback ended yet
    pc,         \* "idle", or "exec" inside SH._execute's loop
    call,       \* the operation in progress (or the last one)
    cnt,        \* SH._execute's local cnt
    sent,       \* the (sql, vals) pairs handed to DB.execute by this _execute
    slept,      \* total of time.sleep() in this _execute
    result,     \* what the last finished operation gave its caller
    schema,     \* SH.__schema__: the declared table names, in order
    pkey,       \* SH.__schema__: per table, the DBName of its DBColROWID, or NoKey
    catalog,    \* engine: the tables that exist (sqlite_master)
    tnames,     \* MakeDatabaseSchema's local tnames
    mdsIdx,     \* MakeDatabaseSchema's position in __schema__ (0: the query)
    issued,     \* CREATE TABLE statements this MakeDatabaseSchema handed over
    made,       \* a MakeDatabaseSchema call has returned without an exception
    tables,     \* engine: per table, the set of its rows
    owner,      \* the thread that opened the connection (0: the main thread)
    tpc,        \* per thread sharing the SH object: where it is in a method
    tres        \* per thread: its call in the current round of begin() calls

vars == <<db, rowfact, cursor, lastHandle, began, pc, call, cnt, sent, slept,
          result, schema, pkey, catalog, tnames, mdsIdx, issued, made, tables, owner,
          tpc, tres>>

connVars == <<db, rowfact>>
txnVars == <<cursor, lastHandle, began>>
execVars == <<pc, call, cnt, sent, slept>>
mdsVars == <<tnames, mdsIdx, issued, made>>
thrVars == <<owner, tpc, tres>>

\* ------------------------------------------------------- results of a call
\* status/exc/ret: how the call ended; engine: the connection method it
\* reached; db0, cursor0, catalog0: _db, _cursor and the catalog when it was
\* called; attempts, locks, slept, same: DB.execute calls made by the last
\* _execute, its cnt, the total slept, and whether every attempt carried the
\* statement and parameters of the call; locked, failed, last: how many of
\* those attempts the engine answered "database is locked", how many with
\* another exception, and its answer to the last one; exec: what _execute
\* gave its caller; issued: the CREATE TABLE statements a
\* MakeDatabaseSchema handed to execute(); made0: whether an earlier
\* MakeDatabaseSchema had returned without an exception.
NoAnswer == [kind |-> "", cls |-> "", msg |-> <<>>]

Ret(op, ret, eng, d0, c0) ==
    [op |-> op, status |-> "ok", exc |-> "", ret |-> ret, engine |-> eng,
     db0 |-> d0, cursor0 |-> c0, catalog0 |-> {}, attempts |-> 0, locks |-> 0,
     slept |-> 0, same |-> TRUE, locked |-> 0, failed |-> 0, last |-> NoAnswer,
     exec |-> "", issued |-> <<>>, made0 |-> FALSE]

Exc(op, exc, eng, d0, c0) ==
    [op |-> op, status |-> "error", exc |-> exc, ret |-> "", engine |-> eng,
     db0 |-> d0, cursor0 |-> c0, catalog0 |-> {}, attempts |-> 0, locks |-> 0,
     slept |-> 0, same |-> TRUE, locked |-> 0, failed |-> 0, last |-> NoAnswer,
     exec |-> "", issued |-> <<>>, made0 |-> FALSE]

\* ------------------------------------------------------------ the engine
\* An exception of the sqlite3 module: its class and the words of args[0].
Err(cls, msg) == [kind |-> "raise", cls |-> cls, msg |-> msg]
Executed == [kind |-> "ok", cls |-> "", msg |-> <<>>]

DatabaseIsLocked == Err("OperationalError", <<"database", "is", "locked">>)
TableIsLocked == Err("OperationalError", <<"database", "table", "is", "locked">>)
NoSuchTable(t) == Err("OperationalError", <<"no", "such", "table:", t>>)
TableExists(t) == Err("OperationalError", <<"table", t, "already", "exists">>)
SyntaxError == Err("OperationalError", <<"near", "WHERE:", "syntax", "error">>)
ConstraintFailed == Err("IntegrityError", <<"UNIQUE", "constraint", "failed">>)

\* needle in hay, for word sequences: Python's substring test "x in s".
Contains(hay, needle) ==
    \E i \in 0..(Len(hay) - Len(needle)) :
        \A j \in 1..Len(needle) : hay[i + j] = needle[j]

\* A statement as the builders render it: the verb, the table, the quoted
\* column list, the SET columns and the WHERE columns (each "`c`=?") with
\* the word joining them, and the ORDER BY text.
Stmt(verb, t, cols, set, where, joiner, order) ==
    [verb |-> verb, table |-> t, cols |-> cols, set |-> set, where |-> where,
     joiner |-> joiner, order |-> order]

WellFormed(s) ==
    CASE s.verb = "SELECT" -> s.cols # <<>>
      [] s.verb = "COUNT" -> TRUE
      [] s.verb = "INSERT" -> s.cols # <<>>
      [] s.verb = "UPDATE" -> s.set # <<>> /\ s.where # <<>>
      [] s.verb = "DELETE" -> s.where # <<>>
      [] s.verb = "CREATE" -> TRUE
      [] OTHER -> FALSE

\* What the engine answers when it is not locked and nothing else fails.
Answer(s, cat) ==
    IF ~WellFormed(s) THEN SyntaxError
    ELSE IF s.verb = "CREATE"
         THEN (IF s.table \in cat THEN TableExists(s.table) ELSE Executed)
         ELSE (IF s.table \in cat \cup {"sqlite_master"}
               THEN Executed ELSE NoSuchTable(s.table))

\* Everything DB.execute(sql, vals) can do on one attempt.
EngineOutcomes(s, cat) ==
    {DatabaseIsLocked, TableIsLocked, Answer(s, cat)}
    \cup (IF Answer(s, cat) = Executed /\ s.verb \in {"INSERT", "UPDATE"}
          THEN {ConstraintFailed} ELSE {})

\* The engine when no other process holds the file for longer than the retry
\* loop waits: locked at most RetryCap - 1 times in a row, then its answer.
ResponsiveOutcomes(s, cat, c) ==
    {Answer(s, cat)} \cup (IF c < RetryCap - 1 THEN {DatabaseIsLocked} ELSE {})

\* ---------------------------------------------------------------- threads
Threads == 1..NumThreads
NoCall == [op |-> "", status |-> "", exc |-> "", handle |-> None]
ThreadRes(op, status, exc, h) == [op |-> op, status |-> status, exc |-> exc, handle |-> h]

\* ------------------------------------------------------------ connection
\* SH.open: stores the row factory first, then refuses a second open.
open(rowfactory, connects) ==
    /\ pc = "idle"
    /\ rowfact' = rowfactory
    /\ IF db # NoConnection
       THEN /\ db' = db
            /\ result' = Exc("open", "Exception", "", db, cursor)
       ELSE IF connects
            THEN /\ db' = Connection
                 /\ result' = Ret("open", "None", "connect", db, cursor)
            ELSE /\ db' = NoConnection
                 /\ result' = Exc("open", "OperationalError", "connect", db, cursor)
    /\ UNCHANGED <<txnVars, execVars, mdsVars, schema, pkey, catalog, tables, thrVars>>

\* SH.close: refuses when not open; the transaction flag is left alone.
close ==
    /\ pc = "idle"
    /\ IF db = NoConnection
       THEN /\ db' = db
            /\ result' = Exc("close", "Exception", "", db, cursor)
       ELSE /\ db' = NoConnection
            /\ result' = Ret("close", "None", "close", db, cursor)
    /\ UNCHANGED <<rowfact, txnVars, execVars, mdsVars, schema, pkey, catalog, tables, thrVars>>

\* SH.reopen: drops the connection without closing it, then open(_rowfact).
reopen(connects) ==
    /\ pc = "idle"
    /\ IF connects
       THEN /\ db' = Connection
            /\ result' = Ret("reopen", "None", "connect", db, cursor)
       ELSE /\ db' = NoConnection
            /\ result' = Exc("reopen", "OperationalError", "connect", db, cursor)
    /\ UNCHANGED <<rowfact, txnVars, execVars, mdsVars, schema, pkey, catalog, tables, thrVars>>

\* ----------------------------------------------------------- transactions
\* self._db.cursor(): a cursor object other than the one handed out before.
NewHandle(h) == (h % MaxHandles) + 1

begin_always(c) == TRUE
\* "if self._cursor is None" in SH.begin
begin_allowed(c) == c = None

begin ==
    /\ pc = "idle"
    /\ IF begin_allowed(cursor)
       THEN IF db = NoConnection
            THEN /\ result' = Exc("begin", "AttributeError", "", db, cursor)
                 /\ UNCHANGED txnVars
            ELSE /\ cursor' = NewHandle(lastHandle)
                 /\ lastHandle' = NewHandle(lastHandle)
                 /\ began' = began \cup {NewHandle(lastHandle)}
                 /\ result' = Ret("begin", "None", "cursor", db, cursor)
       ELSE /\ result' = Exc("begin", "Exception", "", db, cursor)
            /\ UNCHANGED txnVars
    /\ UNCHANGED <<connVars, execVars, mdsVars, schema, pkey, catalog, tables, thrVars>>

end_never_noop(c) == FALSE
\* "if self._cursor is None: pass" in SH.commit and SH.rollback
end_is_noop(c) == c = None

\* SH.commit (how = "commit") and SH.rollback (how = "rollback").
EndTransaction(how) ==
    /\ pc = "idle"
    /\ IF end_is_noop(cursor)
       THEN /\ result' = Ret(how, "None", "", db, cursor)
            /\ UNCHANGED txnVars
       ELSE IF db = NoConnection
            THEN /\ result' = Exc(how, "AttributeError", "", db, cursor)
                 /\ UNCHANGED txnVars
            ELSE /\ cursor' = None
                 /\ began' = {}
                 /\ lastHandle' = lastHandle
                 /\ result' = Ret(how, "None", how, db, cursor)
    /\ UNCHANGED <<connVars, execVars, mdsVars, schema, pkey, catalog, tables, thrVars>>

commit == EndTransaction("commit")

rollback == EndTransaction("rollback")

\* ---------------------------------------------------------- query builders
\* A dict is the sequence of its (key, value) pairs in insertion order.
Keys(d) == [i \in 1..Len(d) |-> d[i][1]]
Values(d) == [i \in 1..Len(d) |-> d[i][2]]

\* The columns the model gives the example's tables (DBTable.Cols).
Cols(t) ==
    IF t = "employee" THEN <<"name", "awesome">> ELSE <<"visits">>

\* DBTable.SQL: CREATE TABLE `t` (`c` typ, ...), columns in declared order.
CreateSQL(t) == Stmt("CREATE", t, Cols(t), <<>>, <<>>, "", "")

\* The catalog query of MakeDatabaseSchema (a literal, no parameters).
CatalogQuery == Stmt("SELECT", "sqlite_master", <<"name">>, <<>>, <<"type">>, "", "")

\* SH.select's treatment of cols: None and "*" select everything, a str is
\* one column, a list of str is kept, anything else is refused.
ColsOk(c) == c.kind \in {"None", "str", "list"}
RenderCols(c) ==
    IF c.kind = "None" \/ (c.kind = "str" /\ c.names = <<"*">>)
    THEN <<"*">> ELSE c.names

SelectSQL(t, c, where, order) ==
    Stmt("SELECT", t, RenderCols(c), <<>>, where, "AND", order)

CountSQL(t, where) == Stmt("COUNT", t, <<"count(*)">>, <<>>, where, "AND", "")

InsertSQL(t, colsmap) == Stmt("INSERT", t, Keys(colsmap), <<>>, <<>>, "", "")

\* joiner.strip().lower()
JoinerNorm(j) ==
    CASE j \in {"AND", "and", " And "} -> "and"
      [] j \in {"OR", "or", " oR "} -> "or"
      [] OTHER -> j

JoinerOk(j) == JoinerNorm(j) \in {"and", "or"}
JoinerWord(j) == IF JoinerNorm(j) = "and" THEN "AND" ELSE "OR"

\* "s_vals + w_vals" in SH.update: SET values first, then WHERE values
update_params(where, vals) == Values(vals) \o Values(where)

UpdateSQL(t, where, vals, joiner) ==
    Stmt("UPDATE", t, <<>>, Keys(vals), Keys(where), JoinerWord(joiner), "")

DeleteSQL(t, where, joiner) ==
    Stmt("DELETE", t, <<>>, <<>>, Keys(where), JoinerWord(joiner), "")

\* -------------------------------------------------------------- execution
BlankStmt == Stmt("", "", <<>>, <<>>, <<>>, "", "")
BlankCall ==
    [op |-> "", tname |-> "", sql |-> BlankStmt, vals |-> <<>>,
     db0 |-> NoConnection, cursor0 |-> None, catalog0 |-> {}, made0 |-> FALSE]

\* Nothing has come back to the caller yet.
Pending(op) == [Ret(op, "", "", db, cursor) EXCEPT !.status = "pending"]

\* SH.execute: hands (sql, vals) to _execute; vals None becomes tuple().
Start(op, t, sql, vals) ==
    /\ pc' = "exec"
    /\ call' = [op |-> op, tname |-> t, sql |-> sql, vals |-> vals,
                db0 |-> db, cursor0 |-> cursor, catalog0 |-> catalog, made0 |-> made]
    /\ cnt' = 0
    /\ sent' = <<>>
    /\ slept' = 0
    /\ result' = Pending(op)

\* An operation refused before any statement is built or sent.
Refuse(op, exc) ==
    /\ result' = [Exc(op, exc, "", db, cursor) EXCEPT !.catalog0 = catalog]
    /\ UNCHANGED execVars

execute(t, sql, vals) ==
    /\ pc = "idle"
    /\ Start("execute", t, sql, vals)
    /\ UNCHANGED <<connVars, txnVars, mdsVars, schema, pkey, catalog, tables, thrVars>>

select(op, t, c, where, vals, order) ==
    /\ pc = "idle"
    /\ IF ColsOk(c)
       THEN Start(op, t, SelectSQL(t, c, where, order), vals)
       ELSE Refuse(op, "Exception")
    /\ UNCHANGED <<connVars, txnVars, mdsVars, schema, pkey, catalog, tables, thrVars>>

insert(t, colsmap) ==
    /\ pc = "idle"
    /\ Start("insert", t, InsertSQL(t, colsmap), Values(colsmap))
    /\ UNCHANGED <<connVars, txnVars, mdsVars, schema, pkey, catalog, tables, thrVars>>

update(t, where, vals, joiner) ==
    /\ pc = "idle"
    /\ IF JoinerOk(joiner)
       THEN Start("update", t, UpdateSQL(t, where, vals, joiner),
                     update_params(where, vals))
       ELSE Refuse("update", "ValueError")
    /\ UNCHANGED <<connVars, txnVars, mdsVars, schema, pkey, catalog, tables, thrVars>>

delete(t, where, joiner) ==
    /\ pc = "idle"
    /\ IF JoinerOk(joiner)
       THEN Start("delete", t, DeleteSQL(t, where, joiner), Values(where))
       ELSE Refuse("delete", "ValueError")
    /\ UNCHANGED <<connVars, txnVars, mdsVars, schema, pkey, catalog, tables, thrVars>>

num_rows(t, where, vals) ==
    /\ pc = "idle"
    /\ Start("num_rows", t, CountSQL(t, where), vals)
    /\ UNCHANGED <<connVars, txnVars, mdsVars, schema, pkey, catalog, tables, thrVars>>

\* What each entry point makes of _execute's return value (val is "cursor",
\* or "None" when the loop ran out) or of the exception it let through.
Wrap(op, kind, val, eng) ==
    IF kind = "raise" THEN Exc(op, val, eng, call.db0, call.cursor0)
    ELSE CASE op \in {"execute", "select", "update", "delete"} ->
                Ret(op, val, eng, call.db0, call.cursor0)
           [] op = "select_one" ->
                Ret(op, IF val = "None" THEN "None" ELSE "row", eng,
                    call.db0, call.cursor0)
           [] op = "insert" ->
                IF val = "None"
                THEN Exc(op, "AttributeError", eng, call.db0, call.cursor0)
                ELSE Ret(op, "lastrowid", eng, call.db0, call.cursor0)
           [] op = "num_rows" ->
                IF val = "None"
                THEN Exc(op, "AttributeError", eng, call.db0, call.cursor0)
                ELSE Ret(op, "count", eng, call.db0, call.cursor0)

\* The entry point returns to its caller with r; the locals go away.
Leave(r, val, sentNow) ==
    /\ result' = [r EXCEPT !.catalog0 = call.catalog0,
                           !.attempts = Len(sentNow),
                           !.locks = cnt,
                           !.slept = slept,
                           !.same = \A i \in 1..Len(sentNow) :
                                        /\ sentNow[i].sql = call.sql
                                        /\ sentNow[i].vals = call.vals,
                           !.locked = Cardinality({i \in 1..Len(sentNow) :
                                        sentNow[i].out = DatabaseIsLocked}),
                           !.failed = Cardinality({i \in 1..Len(sentNow) :
                                        /\ sentNow[i].out.kind = "raise"
                                        /\ sentNow[i].out # DatabaseIsLocked}),
                           !.last = IF sentNow = <<>> THEN NoAnswer
                                    ELSE sentNow[Len(sentNow)].out,
                           !.exec = val,
                           !.issued = issued,
                           !.made0 = call.made0]
    /\ pc' = "idle"
    /\ call' = BlankCall
    /\ cnt' = 0
    /\ sent' = <<>>
    /\ slept' = 0
    /\ tnames' = {}
    /\ mdsIdx' = 0
    /\ issued' = <<>>
    /\ made' = (made \/ (r.op = "MakeDatabaseSchema" /\ r.status = "ok"))

\* ----------------------------------------------------- MakeDatabaseSchema
\* "if o.DBName in tnames: continue"
mds_skips(o, tn) == o \in tn

\* The first entry of __schema__ from position i on that is not skipped
\* (0: none is left).
MdsNext(i, tn) ==
    LET todo == {j \in i..Len(schema) : ~mds_skips(schema[j], tn)}
    IN IF todo = {} THEN 0 ELSE CHOOSE j \in todo : \A k \in todo : j <= k

\* MakeDatabaseSchema's loop from position i on, with the transaction flag
\* at cur: return when nothing is left, else begin() and execute the DDL.
MdsLoop(i, tn, cur, bg, eng, val, sentNow) ==
    LET j == MdsNext(i, tn) IN
    IF j = 0
    THEN /\ Leave(Ret("MakeDatabaseSchema", "None", eng, call.db0, call.cursor0),
                  val, sentNow)
         /\ cursor' = cur /\ began' = bg /\ lastHandle' = lastHandle
    ELSE IF ~begin_allowed(cur)
    THEN /\ Leave(Exc("MakeDatabaseSchema", "Exception", eng, call.db0, call.cursor0),
                  val, sentNow)
         /\ cursor' = cur /\ began' = bg /\ lastHandle' = lastHandle
    ELSE /\ cursor' = NewHandle(lastHandle)
         /\ lastHandle' = NewHandle(lastHandle)
         /\ began' = bg \cup {NewHandle(lastHandle)}
         /\ call' = [call EXCEPT !.sql = CreateSQL(schema[j]), !.vals = <<>>,
                                 !.tname = schema[j]]
         /\ tnames' = tn
         /\ mdsIdx' = j
         /\ issued' = Append(issued, schema[j])
         /\ made' = made
         /\ cnt' = 0 /\ sent' = <<>> /\ slept' = 0
         /\ pc' = "exec"
         /\ result' = result

MakeDatabaseSchema ==
    /\ pc = "idle"
    /\ Start("MakeDatabaseSchema", "sqlite_master", CatalogQuery, <<>>)
    /\ mdsIdx' = 0
    /\ tnames' = {}
    /\ issued' = <<>>
    /\ made' = made
    /\ UNCHANGED <<connVars, txnVars, schema, pkey, catalog, tables, thrVars>>

\* ------------------------------------------------------------- SH._execute
retry_any_operational(e) == e.cls = "OperationalError"
\* "except sqlite3.OperationalError as e: if 'database is locked' in e.args[0]"
is_locked(e) ==
    e.cls = "OperationalError" /\ Contains(e.msg, <<"database", "is", "locked">>)

retry_while_short(c) == c < RetryCap - 1
\* "while cnt < 10"
retry_while(c) == c < RetryCap

db_execute_ignores_none(d) == TRUE
\* self.DB.execute exists only on a connection (None has no attribute)
db_execute_reachable(d) == d # NoConnection

\* _execute is left, by return (val "cursor" or "None") or by an exception
\* (val its class): the entry point that called it goes on from there.
Complete(kind, val, sentNow) ==
    LET eng == IF sentNow = <<>> THEN "" ELSE "execute" IN
    IF call.op # "MakeDatabaseSchema"
    THEN /\ Leave(Wrap(call.op, kind, val, eng), IF kind = "raise" THEN "raised" ELSE val, sentNow)
         /\ UNCHANGED txnVars
    ELSE IF kind = "raise"
    THEN /\ Leave(Exc(call.op, val, eng, call.db0, call.cursor0), "raised", sentNow)
         /\ UNCHANGED txnVars
    ELSE IF mdsIdx = 0
    THEN IF val = "None"
         THEN /\ Leave(Exc(call.op, "TypeError", eng, call.db0, call.cursor0), val, sentNow)
              /\ UNCHANGED txnVars
         ELSE MdsLoop(1, catalog, cursor, began, eng, val, sentNow)
    ELSE IF end_is_noop(cursor)
         THEN MdsLoop(mdsIdx + 1, tnames, cursor, began, eng, val, sentNow)
         ELSE MdsLoop(mdsIdx + 1, tnames, None, {}, eng, val, sentNow)

\* One pass of the loop body with the engine answering out.
Attempt(out) ==
    /\ pc = "exec"
    /\ retry_while(cnt)
    /\ IF ~db_execute_reachable(db)
       THEN /\ Complete("raise", "AttributeError", sent)
            /\ UNCHANGED catalog
       ELSE LET sentNow == Append(sent, [sql |-> call.sql, vals |-> call.vals,
                                             out |-> out]) IN
            IF out.kind = "ok"
            THEN /\ catalog' = IF call.sql.verb = "CREATE"
                               THEN catalog \cup {call.sql.table} ELSE catalog
                 /\ Complete("return", "cursor", sentNow)
            ELSE IF is_locked(out)
            THEN /\ slept' = slept + cnt
                 /\ cnt' = cnt + 1
                 /\ sent' = sentNow
                 /\ UNCHANGED <<pc, call, result, txnVars, mdsVars, catalog>>
            ELSE /\ Complete("raise", out.cls, sentNow)
                 /\ UNCHANGED catalog
    /\ UNCHANGED <<connVars, schema, pkey, tables, thrVars>>

\* The loop condition fails: _execute falls off its end and returns None.
Exhausted ==
    /\ pc = "exec"
    /\ ~retry_while(cnt)
    /\ Complete("return", "None", sent)
    /\ UNCHANGED <<connVars, schema, pkey, catalog, tables, thrVars>>

_execute == \E out \in EngineOutcomes(call.sql, catalog) : Attempt(out)

_execute_responsive ==
    \E out \in ResponsiveOutcomes(call.sql, catalog, cnt) : Attempt(out)

\* ------------------------------------------------------------ the callers
RowFactories == {"None", "dict_factory"}
\* cols = "*", cols = None
AllCols == [kind |-> "str", names |-> <<"*">>]
NoCols == [kind |-> "None", names |-> <<>>]
\* a statement a caller writes itself
Select1 == Stmt("SELECT", "employee", <<"1">>, <<>>, <<>>, "", "")
ColsArgs ==
    {AllCols,
     [kind |-> "list", names |-> <<"rowid", "name">>],
     [kind |-> "other", names |-> <<>>]}
Joiners == {"AND", "XOR"}
WhereMaps == {<<>>, <<<<"rowid", 1>>>>}

Init ==
    /\ db = NoConnection
    /\ rowfact = "None"
    /\ cursor = None
    /\ lastHandle = 0
    /\ began = {}
    /\ pc = "idle"
    /\ call = BlankCall
    /\ cnt = 0
    /\ sent = <<>>
    /\ slept = 0
    /\ result = Ret("__init__", "None", "", NoConnection, None)
    /\ schema = ExampleSchema
    /\ pkey = ExamplePKeys
    /\ catalog = {}
    /\ tnames = {}
    /\ mdsIdx = 0
    /\ issued = <<>>
    /\ made = FALSE
    /\ tables = [t \in TableNames |-> {}]
    /\ owner = 0
    /\ tpc = [t \in Threads |-> "idle"]
    /\ tres = [t \in Threads |-> NoCall]

Next ==
    \/ \E f \in RowFactories, ok \in BOOLEAN : open(f, ok)
    \/ close
    \/ \E ok \in BOOLEAN : reopen(ok)
    \/ begin
    \/ commit
    \/ rollback
    \/ execute("employee", Select1, <<>>)
    \/ \E c \in ColsArgs : select("select", "employee", c, <<>>, <<>>, "")
    \/ select("select_one", "employee", NoCols, <<"rowid">>, <<1>>, "")
    \/ insert("employee", <<<<"name", 1>>, <<"awesome", 0>>>>)
    \/ \E w \in WhereMaps, j \in Joiners : update("address", w, <<<<"visits", 1>>>>, j)
    \/ \E j \in Joiners : delete("employee", <<<<"rowid", 1>>>>, j)
    \/ num_rows("address", <<>>, <<>>)
    \/ MakeDatabaseSchema
    \/ _execute
    \/ Exhausted

Spec == Init /\ [][Next]_vars

\* ------------------------------------------- threads sharing one SH object
\* SH takes no lock, so a thread can be preempted between the test of
\* self._cursor and the assignment to it. open() calls sqlite3.connect
\* without check_same_thread, so the connection keeps the default check:
\* its methods raise ProgrammingError in every thread but the one that
\* opened it (assigning sqlite3.threadsafety does not change that).
same_thread(t) == t = owner

\* SH.begin, the test "if self._cursor is None".
begin_test(t) ==
    /\ tpc[t] = "idle"
    /\ IF begin_allowed(cursor)
       THEN /\ tpc' = [tpc EXCEPT ![t] = "begin"]
            /\ tres' = [tres EXCEPT ![t] = ThreadRes("begin", "pending", "", None)]
       ELSE /\ tpc' = tpc
            /\ tres' = [tres EXCEPT ![t] = ThreadRes("begin", "error", "Exception", None)]
    /\ UNCHANGED <<connVars, txnVars, execVars, mdsVars, result, schema, pkey, catalog, tables,
                   owner>>

\* SH.begin, "self._cursor = self._db.cursor()".
begin_assign(t) ==
    /\ tpc[t] = "begin"
    /\ tpc' = [tpc EXCEPT ![t] = "idle"]
    /\ IF same_thread(t)
       THEN /\ cursor' = NewHandle(lastHandle)
            /\ lastHandle' = NewHandle(lastHandle)
            /\ began' = began \cup {NewHandle(lastHandle)}
            /\ tres' = [tres EXCEPT ![t] = ThreadRes("begin", "ok", "",
                                                     NewHandle(lastHandle))]
       ELSE /\ UNCHANGED txnVars
            /\ tres' = [tres EXCEPT ![t] = ThreadRes("begin", "error",
                                                     "ProgrammingError", None)]
    /\ UNCHANGED <<connVars, execVars, mdsVars, result, schema, pkey, catalog, tables, owner>>

\* SH.commit / SH.rollback, the test "if self._cursor is None".
end_test(t, how) ==
    /\ tpc[t] = "idle"
    /\ IF end_is_noop(cursor)
       THEN /\ tpc' = tpc
            /\ tres' = [tres EXCEPT ![t] = ThreadRes(how, "ok", "", None)]
       ELSE /\ tpc' = [tpc EXCEPT ![t] = how]
            /\ tres' = [tres EXCEPT ![t] = ThreadRes(how, "pending", "", None)]
    /\ UNCHANGED <<connVars, txnVars, execVars, mdsVars, result, schema, pkey, catalog, tables,
                   owner>>

\* SH.commit / SH.rollback, "self._db.commit(); self._cursor = None". When
\* the transaction ends, a new round of begin() calls starts: the calls of
\* the round that ended are forgotten.
end_assign(t) ==
    /\ tpc[t] \in {"commit", "rollback"}
    /\ tpc' = [tpc EXCEPT ![t] = "idle"]
    /\ IF same_thread(t)
       THEN /\ cursor' = None
            /\ began' = {}
            /\ lastHandle' = lastHandle
            /\ tres' = [u \in Threads |->
                          IF u = t THEN ThreadRes(tpc[t], "ok", "", None)
                          ELSE IF tres[u].status = "pending" THEN tres[u] ELSE NoCall]
       ELSE /\ UNCHANGED txnVars
            /\ tres' = [tres EXCEPT ![t] = ThreadRes(tpc[t], "error",
                                                     "ProgrammingError", None)]
    /\ UNCHANGED <<connVars, execVars, mdsVars, result, schema, pkey, catalog, tables, owner>>

InitConc ==
    /\ db = Connection
    /\ rowfact = "None"
    /\ cursor = None
    /\ lastHandle = 0
    /\ began = {}
    /\ pc = "idle"
    /\ call = BlankCall
    /\ cnt = 0
    /\ sent = <<>>
    /\ slept = 0
    /\ result = Ret("open", "None", "connect", NoConnection, None)
    /\ schema = ExampleSchema
    /\ pkey = ExamplePKeys
    /\ catalog = TableNames
    /\ tnames = {}
    /\ mdsIdx = 0
    /\ issued = <<>>
    /\ made = FALSE
    /\ tables = [t \in TableNames |-> {}]
    /\ owner \in 0..NumThreads
    /\ tpc = [t \in Threads |-> "idle"]
    /\ tres = [t \in Threads |-> NoCall]

NextConc ==
    \E t \in Threads :
        \/ begin_test(t)
        \/ begin_assign(t)
        \/ end_test(t, "commit")
        \/ end_test(t, "rollback")
        \/ end_assign(t)

SpecConc == InitConc /\ [][NextConc]_vars

\* ------------------------------------------------------- rows and SH_sub
\* The engine on rows. A row is a record of its rowid and its columns; the
\* parameters are bound to the "?" of the statement from left to right.
RowIds(rs) == {r.rowid : r \in rs}
ColSet(t) == {Cols(t)[i] : i \in 1..Len(Cols(t))}

\* `c`=? AND/OR `d`=? ... over the row; NULL equals nothing.
Matches(r, s, wvals) ==
    LET hit(i) == wvals[i] # NULL /\ r[s.where[i]] = wvals[i] IN
    IF s.joiner = "OR" THEN \E i \in 1..Len(s.where) : hit(i)
    ELSE \A i \in 1..Len(s.where) : hit(i)

Selected(s, params, rs) == {r \in rs : s.where = <<>> \/ Matches(r, s, params)}

NextRowId(rs) ==
    IF rs = {} THEN 1
    ELSE (CHOOSE m \in RowIds(rs) : \A k \in RowIds(rs) : k <= m) + 1

Inserted(s, params, rs) ==
    rs \cup {[c \in {"rowid"} \cup ColSet(s.table) |->
                IF \E i \in 1..Len(s.cols) : s.cols[i] = c
                THEN params[CHOOSE i \in 1..Len(s.cols) : s.cols[i] = c]
                ELSE IF c = "rowid" THEN NextRowId(rs) ELSE NULL]}

\* SET takes the first Len(s.set) parameters, WHERE the rest.
Updated(s, params, rs) ==
    LET k == Len(s.set)
        wvals == SubSeq(params, k + 1, Len(params))
        new(r) == [c \in DOMAIN r |->
                     IF \E i \in 1..k : s.set[i] = c
                     THEN params[CHOOSE i \in 1..k : s.set[i] = c]
                     ELSE r[c]]
    IN {IF Matches(r, s, wvals) THEN new(r) ELSE r : r \in rs}

Deleted(s, params, rs) == {r \in rs : ~Matches(r, s, params)}

\* What a call through a table accessor gave its caller, and the call:
\* nargs is the number of its positional arguments, target the rowid its
\* predicate names (None: another predicate), vals the map of new values
\* (of a lookup: the column and the value looked up),
\* rowcount the rows the statement touched, rows the rowids a select
\* returned.
DataRes(op, t, nargs, status, exc, target, vals, rowcount, rows) ==
    [op |-> op, tname |-> t, nargs |-> nargs, status |-> status, exc |-> exc,
     target |-> target, vals |-> vals, rowcount |-> rowcount, rows |-> rows]

RowidIs(X) == <<<<"rowid", X>>>>
TargetOf(where) ==
    IF Len(where) = 1 /\ where[1][1] = "rowid" THEN where[1][2] ELSE None

RowIdBound(t) == IF t = "employee" THEN MaxRowId ELSE MaxAddressRowId

\* The engine through one _execute: it answers within the RetryCap
\* attempts, or it is locked on each of them and _execute returns None.
EngineModes == {"answers", "locked"}

\* SH_sub.insert(**cols) -> SH.insert(DBName, **cols): res.lastrowid
sub_insert(t, colsmap, eng) ==
    LET sql == InsertSQL(t, colsmap)
        ans == Answer(sql, catalog)
    IN /\ pc = "idle"
       /\ NextRowId(tables[t]) <= RowIdBound(t)
       /\ IF eng = "locked"
          THEN /\ tables' = tables
               /\ result' = DataRes("insert", t, 0, "error", "AttributeError", None,
                                    <<>>, 0, {})
          ELSE IF ans = Executed
          THEN /\ tables' = [tables EXCEPT ![t] = Inserted(sql, Values(colsmap), @)]
               /\ result' = DataRes("insert", t, 0, "ok", "", NextRowId(tables[t]),
                                    <<>>, 1, {})
          ELSE /\ tables' = tables
               /\ result' = DataRes("insert", t, 0, "error", ans.cls, None, <<>>, 0, {})
       /\ UNCHANGED <<connVars, txnVars, execVars, mdsVars, schema, pkey, catalog, thrVars>>

\* SH_sub.update(where, vals) -> SH.update(DBName, where, vals): args are
\* the positional arguments of the call.
sub_update(t, args, eng) ==
    /\ pc = "idle"
    /\ IF Len(args) # 2
       THEN /\ tables' = tables
            /\ result' = DataRes("update", t, Len(args), "error", "TypeError", None,
                                 <<>>, 0, {})
       ELSE LET where == args[1]
                vals == args[2]
                sql == UpdateSQL(t, where, vals, "AND")
                params == update_params(where, vals)
                ans == Answer(sql, catalog)
            IN IF eng = "locked"
               THEN /\ tables' = tables
                    /\ result' = DataRes("update", t, 2, "None", "", TargetOf(where),
                                         vals, 0, {})
               ELSE IF ans = Executed
               THEN /\ tables' = [tables EXCEPT ![t] = Updated(sql, params, @)]
                    /\ result' = DataRes("update", t, 2, "ok", "", TargetOf(where), vals,
                                         Cardinality({r \in tables[t] :
                                            Matches(r, sql, Values(where))}), {})
               ELSE /\ tables' = tables
                    /\ result' = DataRes("update", t, 2, "error", ans.cls,
                                         TargetOf(where), vals, 0, {})
    /\ UNCHANGED <<connVars, txnVars, execVars, mdsVars, schema, pkey, catalog, thrVars>>

\* SH_sub.delete(where) -> SH.delete(DBName, where): args are the
\* positional arguments of the call; meant is the rowid the caller is after.
sub_delete(t, args, meant, eng) ==
    /\ pc = "idle"
    /\ IF Len(args) # 1
       THEN /\ tables' = tables
            /\ result' = DataRes("delete", t, Len(args), "error", "TypeError", meant,
                                 <<>>, 0, {})
       ELSE LET where == args[1]
                sql == DeleteSQL(t, where, "AND")
                ans == Answer(sql, catalog)
            IN IF eng = "locked"
               THEN /\ tables' = tables
                    /\ result' = DataRes("delete", t, 1, "None", "", meant, <<>>, 0, {})
               ELSE IF ans = Executed
               THEN /\ tables' = [tables EXCEPT ![t] = Deleted(sql, Values(where), @)]
                    /\ result' = DataRes("delete", t, 1, "ok", "", meant, <<>>,
                                         Cardinality({r \in tables[t] :
                                            Matches(r, sql, Values(where))}), {})
               ELSE /\ tables' = tables
                    /\ result' = DataRes("delete", t, 1, "error", ans.cls, meant,
                                         <<>>, 0, {})
    /\ UNCHANGED <<connVars, txnVars, execVars, mdsVars, schema, pkey, catalog, thrVars>>

\* db.<t>.delete({'rowid': X})
delete_by_rowid(t, X, eng) == sub_delete(t, <<RowidIs(X)>>, X, eng)

\* The example, for each employee e with awesome = False:
\* db.employee.delete({'rowid': '?'}, [e['rowid']])
example_delete(X, eng) ==
    /\ \E e \in Selected(SelectSQL("employee",
                                   [kind |-> "list", names |-> <<"rowid", "name">>],
                                   <<"awesome">>, ""), <<0>>, tables["employee"]) :
           e.rowid = X
    /\ sub_delete("employee", <<RowidIs(QuestionMark), <<X>>>>, X, eng)

\* SH_sub.select_one(cols, where, vals) -> SH.select_one: the first row of
\* the select, or None.
sub_select_one(t, c, where, vals, eng) ==
    /\ pc = "idle"
    /\ IF ~ColsOk(c)
       THEN result' = DataRes("select_one", t, 3, "error", "Exception", None, <<>>, 0, {})
       ELSE LET sql == SelectSQL(t, c, where, "")
                ans == Answer(sql, catalog)
                got == Selected(sql, vals, tables[t])
                X == IF where = <<"rowid">> THEN vals[1] ELSE None
            IN IF eng = "locked"
               THEN result' = DataRes("select_one", t, 3, "None", "", X, <<>>, 0, {})
               ELSE IF ans = Executed
               THEN result' = DataRes("select_one", t, 3, "ok", "", X, <<>>, 0,
                                      IF got = {} THEN {}
                                      ELSE {CHOOSE m \in RowIds(got) :
                                              \A k \in RowIds(got) : m <= k})
               ELSE result' = DataRes("select_one", t, 3, "error", ans.cls, None,
                                      <<>>, 0, {})
    /\ UNCHANGED <<connVars, txnVars, execVars, mdsVars, schema, pkey, catalog, tables,
                   thrVars>>

\* SH_sub.num_rows() -> SH.num_rows(DBName): res.fetchone()['count']
sub_num_rows(t, eng) ==
    /\ pc = "idle"
    /\ IF eng = "locked"
       THEN result' = DataRes("num_rows", t, 0, "error", "AttributeError", None,
                              <<>>, 0, {})
       ELSE result' = DataRes("num_rows", t, 0, "ok", "", None, <<>>,
                              Cardinality(Selected(CountSQL(t, <<>>), <<>>, tables[t])),
                              {})
    /\ UNCHANGED <<connVars, txnVars, execVars, mdsVars, schema, pkey, catalog, tables,
                   thrVars>>

\* The rowids of a cursor in the order the engine walks the table: by rowid.
RECURSIVE InRowidOrder(_)
InRowidOrder(ids) ==
    IF ids = {} THEN <<>>
    ELSE LET m == CHOOSE m \in ids : \A k \in ids : m <= k
         IN <<m>> \o InRowidOrder(ids \ {m})

\* The name the engine gives the `rowid` column of a result row: the
\* declared name of the "integer primary key" column when the table has one.
RowidColumn(t) == IF pkey[t] = NoKey THEN "rowid" ELSE pkey[t]

\* cols = 'rowid' as the lookups pass it to select
RowidCols == [kind |-> "str", names |-> <<"rowid">>]

\* row['rowid'] on a row of table t: sqlite3.Row and a dict built from the
\* cursor's description both look the name up among the result's columns.
rowid_key_found(t) == RowidColumn(t) = "rowid"

\* The lookups exist only on a table with a DBColROWID column.
has_lookups(t) == pkey[t] # NoKey

\* getbycolumn(self, k)(v), the GetBy<k> of a column that is not unique:
\* rowidorempty(self.select('rowid', '`k`=?', [v])). rowcount is the length
\* of the list it returns and rows its members.
GetBy(t, k, v, eng) ==
    LET sql == SelectSQL(t, RowidCols, <<k>>, "")
        ans == Answer(sql, catalog)
        got == InRowidOrder(RowIds(Selected(sql, <<v>>, tables[t])))
        asked == <<<<k, v>>>>
    IN /\ pc = "idle"
       /\ has_lookups(t)
       /\ IF eng = "locked"
          THEN result' = DataRes("GetBy", t, 1, "ok", "", None, asked, 0, {})
          ELSE IF ans # Executed
          THEN result' = DataRes("GetBy", t, 1, "error", ans.cls, None, asked, 0, {})
          ELSE IF got # <<>> /\ ~rowid_key_found(t)
          THEN result' = DataRes("GetBy", t, 1, "error",
                                 IF rowfact = "None" THEN "IndexError" ELSE "KeyError",
                                 None, asked, 0, {})
          ELSE result' = DataRes("GetBy", t, 1, "ok", "", None, asked, Len(got),
                                 {got[i] : i \in 1..Len(got)})
       /\ UNCHANGED <<connVars, txnVars, execVars, mdsVars, schema, pkey, catalog, tables,
                      thrVars>>

DataValues == {0, 1}
RowIdArgs == 1..MaxRowId
\* dicts over the columns of t: one column, or all of them in order
ValueMaps(t) ==
    {<<>>}
    \cup {<<<<c, v>>>> : c \in ColSet(t), v \in DataValues}
    \cup {[i \in 1..Len(Cols(t)) |-> <<Cols(t)[i], v>>] : v \in DataValues}
\* the keyword arguments of an insert that names every column
InsertMaps(t) == {m \in ValueMaps(t) : Len(m) = Len(Cols(t))}
Predicates == {RowidIs(X) : X \in RowIdArgs}

InitData ==
    /\ db = Connection
    /\ rowfact = "None"
    /\ cursor = None
    /\ lastHandle = 0
    /\ began = {}
    /\ pc = "idle"
    /\ call = BlankCall
    /\ cnt = 0
    /\ sent = <<>>
    /\ slept = 0
    /\ result = DataRes("MakeDatabaseSchema", "", 0, "ok", "", None, <<>>, 0, {})
    /\ schema = ExampleSchema
    /\ pkey = ExamplePKeys
    /\ catalog = TableNames
    /\ tnames = {}
    /\ mdsIdx = 0
    /\ issued = <<>>
    /\ made = TRUE
    /\ tables = [t \in TableNames |-> {}]
    /\ owner = 0
    /\ tpc = [t \in Threads |-> "idle"]
    /\ tres = [t \in Threads |-> NoCall]

NextData ==
    \E eng \in EngineModes :
        \/ \E t \in TableNames : \E m \in InsertMaps(t) : sub_insert(t, m, eng)
        \/ \E t \in TableNames, w \in Predicates : \E V \in ValueMaps(t) :
              sub_update(t, <<w, V>>, eng)
        \/ \E t \in TableNames, X \in RowIdArgs : delete_by_rowid(t, X, eng)
        \/ \E X \in RowIdArgs : example_delete(X, eng)
        \/ \E t \in TableNames, X \in RowIdArgs :
              sub_select_one(t, AllCols, <<"rowid">>, <<X>>, eng)
        \/ \E t \in TableNames : sub_num_rows(t, eng)

SpecData == InitData /\ [][NextData]_vars

\* ------------------------------------------------- the derived lookups
\* The example's tables declared with a DBColROWID column each, under its
\* default name or renamed, and filled through the accessors.
PKeyNames == {"rowid", "id"}
LookupValues == DataValues \cup {NULL}

InitLookup ==
    /\ db = Connection
    /\ rowfact = "None"
    /\ cursor = None
    /\ lastHandle = 0
    /\ began = {}
    /\ pc = "idle"
    /\ call = BlankCall
    /\ cnt = 0
    /\ sent = <<>>
    /\ slept = 0
    /\ result = DataRes("MakeDatabaseSchema", "", 0, "ok", "", None, <<>>, 0, {})
    /\ schema = ExampleSchema
    /\ pkey \in [TableNames -> PKeyNames \cup {NoKey}]
    /\ catalog = TableNames
    /\ tnames = {}
    /\ mdsIdx = 0
    /\ issued = <<>>
    /\ made = TRUE
    /\ tables = [t \in TableNames |-> {}]
    /\ owner = 0
    /\ tpc = [t \in Threads |-> "idle"]
    /\ tres = [t \in Threads |-> NoCall]

NextLookup ==
    \E eng \in EngineModes :
        \/ \E t \in TableNames : \E m \in InsertMaps(t) : sub_insert(t, m, eng)
        \/ \E t \in TableNames, w \in Predicates : \E V \in ValueMaps(t) :
              sub_update(t, <<w, V>>, eng)
        \/ \E t \in TableNames, X \in RowIdArgs : delete_by_rowid(t, X, eng)
        \/ \E t \in TableNames : \E k \in ColSet(t) : \E v \in LookupValues :
              GetBy(t, k, v, eng)

SpecLookup == InitLookup /\ [][NextLookup]_vars

\* ------------------------------------------------- schema creation alone
\* Every __schema__ of at most MaxTables tables with distinct names, on an
\* open connection to a file that holds any of the tables already; the
\* engine answers every statement, at once or after it was locked for less
\* than the retry loop waits.
SchemaNames == TableNames \cup {"visit"}
Schemas ==
    {s \in UNION {[1..n -> SchemaNames] : n \in 0..MaxTables} :
        \A i, j \in 1..Len(s) : s[i] = s[j] => i = j}

InitSchema ==
    /\ db = Connection
    /\ rowfact = "None"
    /\ cursor = None
    /\ lastHandle = 0
    /\ began = {}
    /\ pc = "idle"
    /\ call = BlankCall
    /\ cnt = 0
    /\ sent = <<>>
    /\ slept = 0
    /\ result = Ret("open", "None", "connect", NoConnection, None)
    /\ schema \in Schemas
    /\ pkey = ExamplePKeys
    /\ catalog \in SUBSET SchemaNames
    /\ tnames = {}
    /\ mdsIdx = 0
    /\ issued = <<>>
    /\ made = FALSE
    /\ tables = [t \in TableNames |-> {}]
    /\ owner = 0
    /\ tpc = [t \in Threads |-> "idle"]
    /\ tres = [t \in Threads |-> NoCall]

NextSchema ==
    \/ begin
    \/ commit
    \/ rollback
    \/ MakeDatabaseSchema
    \/ _execute_responsive

SpecSchema == InitSchema /\ [][NextSchema]_vars

\* ------------------------------------------------------------------ claims
EntryPoints == {"execute", "select", "select_one", "insert", "update", "delete", "num_rows"}
NeedConnection == EntryPoints \cup {"MakeDatabaseSchema", "begin"}

\* What an entry point returns when the engine executed the statement.
Returned(op) ==
    CASE op = "select_one" -> "row"
      [] op = "insert" -> "lastrowid"
      [] op = "num_rows" -> "count"
      [] OTHER -> "cursor"

\* C1 as stated: at most one transaction is active; begin() with no
\* transaction active makes one active; begin() with one active raises and
\* leaves the transaction (same handle) as it was.
C1_BeginAsStated ==
    /\ Cardinality(began) <= 1
    /\ result.op = "begin" =>
          IF result.cursor0 = None
          THEN result.status = "ok" /\ cursor # None
          ELSE result.status = "error" /\ cursor = result.cursor0

\* C1 amended: as stated while a connection is open; with no connection and
\* no transaction active begin() raises and no transaction becomes active.
C1_Begin ==
    /\ Cardinality(began) <= 1
    /\ (cursor = None) = (began = {})
    /\ result.op = "begin" =>
          IF result.cursor0 # None
          THEN result.status = "error" /\ cursor = result.cursor0
          ELSE IF result.db0 = Connection
          THEN result.status = "ok" /\ cursor # None /\ began = {cursor}
          ELSE result.status = "error" /\ cursor = None

C1_Witness ==
    /\ result.op = "begin"
    /\ result.db0 = Connection
    /\ result.cursor0 # None
    /\ result.status = "error"
    /\ cursor = result.cursor0

\* C2 as stated: commit() and rollback() with no transaction active do
\* nothing (no error, the connection is not touched, still idle); with one
\* active they commit / roll back the connection and the state is idle.
C2_EndAsStated ==
    result.op \in {"commit", "rollback"} =>
        /\ result.status = "ok"
        /\ cursor = None
        /\ result.engine = (IF result.cursor0 = None THEN "" ELSE result.op)

\* C2 amended: the active case holds while a connection is open; with no
\* connection commit()/rollback() of an active transaction raise and the
\* transaction stays active.
C2_End ==
    result.op \in {"commit", "rollback"} =>
        IF result.cursor0 = None
        THEN result.status = "ok" /\ result.engine = "" /\ cursor = None
        ELSE IF result.db0 = Connection
        THEN result.status = "ok" /\ result.engine = result.op /\ cursor = None
        ELSE result.status = "error" /\ result.engine = "" /\ cursor = result.cursor0

C2_Witness ==
    /\ result.op = "rollback"
    /\ result.cursor0 # None
    /\ result.db0 = Connection
    /\ result.status = "ok"
    /\ result.engine = "rollback"
    /\ cursor = None

\* C3: after RetryCap attempts of a statement all answered "database is
\* locked" the caller of the entry point gets an exception.
C3_ExhaustionRaises ==
    (result.op \in EntryPoints /\ result.locked >= RetryCap) =>
        result.attempts = RetryCap /\ result.status = "error"

\* C4: the loop does not give up before RetryCap locked answers, and when
\* the engine executes the statement on attempt N+1 after N < RetryCap locked
\* answers, exactly N+1 attempts were made, all with the statement and the
\* parameters of the call, and the caller gets the engine's result, no error.
C4_RetryThenSuccess ==
    result.op \in EntryPoints =>
        /\ (result.exec = "None" => result.locked >= RetryCap)
        /\ (result.last = Executed =>
              /\ result.locked < RetryCap
              /\ result.attempts = result.locked + 1
              /\ result.same
              /\ result.status = "ok"
              /\ result.ret = Returned(result.op))

C4_Witness ==
    /\ result.op = "insert"
    /\ result.last = Executed
    /\ result.locked = RetryCap - 1
    /\ result.attempts = RetryCap
    /\ result.status = "ok"

\* C5: an exception of the engine that is not "database is locked" ends the
\* call at once with that exception: it is the last attempt, the only one
\* so answered, however many locked attempts came before.
C5_OtherErrorsPropagate ==
    result.failed > 0 =>
        /\ result.failed = 1
        /\ result.last.kind = "raise"
        /\ result.last # DatabaseIsLocked
        /\ result.attempts = result.locked + 1
        /\ result.status = "error"
        /\ result.exc = result.last.cls

C5_Witness ==
    /\ result.op = "select"
    /\ result.failed = 1
    /\ result.locked = RetryCap - 1
    /\ result.last = NoSuchTable("employee")
    /\ result.status = "error"

\* C8: with no connection every operation that needs one (commit and
\* rollback when a transaction is active) ends with an exception, no
\* statement reached the engine, nothing was retried, and _db and _cursor
\* are as before.
C8_FailFast ==
    (/\ result.status # "pending"
     /\ result.db0 = NoConnection
     /\ \/ result.op \in NeedConnection
        \/ result.op \in {"commit", "rollback"} /\ result.cursor0 # None) =>
        /\ result.status = "error"
        /\ result.attempts = 0
        /\ result.locks = 0
        /\ result.slept = 0
        /\ result.engine = ""
        /\ db = NoConnection
        /\ cursor = result.cursor0

C8_Witness ==
    /\ result.op = "MakeDatabaseSchema"
    /\ result.db0 = NoConnection
    /\ result.cursor0 # None
    /\ result.status = "error"
    /\ result.exc = "AttributeError"

Declared == {schema[i] : i \in 1..Len(schema)}

\* C6: a MakeDatabaseSchema call on an open connection with no transaction
\* active raises only if the engine raised or stayed locked; when it
\* returns it has handed
\* over CREATE TABLE for exactly the declared tables the catalog lacked,
\* the catalog holds those it had plus the declared ones and the
\* transaction state is idle; a call after one that returned hands over no
\* CREATE TABLE and leaves the catalog as it was.
C6_IdempotentAsStated ==
    (/\ result.op = "MakeDatabaseSchema"
     /\ result.status # "pending"
     /\ result.db0 = Connection
     /\ result.cursor0 = None) =>
        /\ result.status = "error" => (result.failed > 0 \/ result.locked >= RetryCap)
        /\ result.status = "ok" =>
             /\ {result.issued[i] : i \in 1..Len(result.issued)} = Declared \ result.catalog0
             /\ catalog = result.catalog0 \cup Declared
             /\ cursor = None
             /\ (result.made0 => result.issued = <<>> /\ catalog = result.catalog0)

\* With an engine that is locked for fewer than RetryCap attempts in a row
\* and raises nothing else: every MakeDatabaseSchema call on an open
\* connection with no transaction active raises nothing, hands over CREATE
\* TABLE for exactly the declared tables the catalog lacked (each once),
\* leaves the catalog at those it had plus the declared ones and the
\* transaction state idle; a call after one that returned hands over no
\* CREATE TABLE and leaves the catalog as it was.
SchemaIdempotent ==
    (/\ result.op = "MakeDatabaseSchema"
     /\ result.status # "pending"
     /\ result.db0 = Connection
     /\ result.cursor0 = None) =>
        /\ result.status = "ok"
        /\ {result.issued[i] : i \in 1..Len(result.issued)} = Declared \ result.catalog0
        /\ Len(result.issued) = Cardinality(Declared \ result.catalog0)
        /\ catalog = result.catalog0 \cup Declared
        /\ cursor = None
        /\ (result.made0 => result.issued = <<>> /\ catalog = result.catalog0)

SchemaIdempotentWitness ==
    /\ result.op = "MakeDatabaseSchema"
    /\ result.made0
    /\ result.cursor0 = None
    /\ result.status = "ok"
    /\ Len(schema) >= 2
    /\ result.issued = <<>>
    /\ Declared \subseteq catalog

FinishedBegin(t) == tres[t].op = "begin" /\ tres[t].status \in {"ok", "error"}

\* C7: when two threads have each called begin() on one SH object with no
\* commit or rollback in between, the two calls did not both return, a call
\* that raised raised "Already in a transaction", and one call of the round
\* returned (a transaction is active).
C7_OneBeginWins ==
    \A t1, t2 \in Threads :
        (t1 # t2 /\ FinishedBegin(t1) /\ FinishedBegin(t2)) =>
            /\ ~(tres[t1].status = "ok" /\ tres[t2].status = "ok")
            /\ \A t \in {t1, t2} : tres[t].status = "error" => tres[t].exc = "Exception"
            /\ cursor # None

\* select_one('*', '`rowid`=?', [X]) on the rows rs of table t: the rowids
\* it can return (none: absent).
ById(t, X, rs) ==
    RowIds(Selected(SelectSQL(t, AllCols, <<"rowid">>, ""),
                    <<X>>, rs))

DeleteScoped(t, X) ==
    /\ tables'[t] = {r \in tables[t] : r.rowid # X}
    /\ \A u \in TableNames \ {t} : tables'[u] = tables[u]
    /\ ById(t, X, tables'[t]) = {}

\* C9: when a delete through the table accessor that selects the existing
\* row X has been called, in the form {rowid: X} or in the form the example
\* uses for each employee that is not awesome, and the engine was not locked
\* throughout, the row X is gone, every other row of every table is as it
\* was, and a select by X finds nothing.
C9_DeleteAsStated ==
    [][(/\ result'.op = "delete"
        /\ result'.status # "None"
        /\ result'.target \in RowIds(tables[result'.tname]))
       => DeleteScoped(result'.tname, result'.target)]_vars

\* The one-argument form {rowid: X}, when the engine executed the DELETE.
DeleteByRowidScoped ==
    [][(/\ result'.op = "delete"
        /\ result'.nargs = 1
        /\ result'.status = "ok"
        /\ result'.target \in RowIds(tables[result'.tname]))
       => DeleteScoped(result'.tname, result'.target)]_vars

\* Nothing but the row X of table t differs, and no row came or went.
UpdateFrame(t, X) ==
    /\ \A u \in TableNames \ {t} : tables'[u] = tables[u]
    /\ RowIds(tables'[t]) = RowIds(tables[t])
    /\ Cardinality(tables'[t]) = Cardinality(tables[t])
    /\ \A r \in tables[t] : r.rowid # X => r \in tables'[t]

\* The row X has V's values in the columns V names, its others as before.
UpdateEffect(t, X, V) ==
    \A r \in tables[t] : r.rowid = X =>
        \E n \in tables'[t] :
            /\ n.rowid = X
            /\ \A c \in ColSet(t) :
                 IF \E i \in 1..Len(V) : V[i][1] = c
                 THEN \E i \in 1..Len(V) : V[i][1] = c /\ n[c] = V[i][2]
                 ELSE n[c] = r[c]

\* C10: when update({rowid: X}, V) through the table accessor has returned
\* without raising, the row X has the values of V in the columns V names
\* and its other columns as they were, every other row of the table and the
\* other tables are as they were, and the table has the same rows'
\* identifiers and the same number of rows.
C10_UpdateAsStated ==
    [][(/\ result'.op = "update"
        /\ result'.nargs = 2
        /\ result'.target # None
        /\ result'.status # "error")
       => (/\ UpdateFrame(result'.tname, result'.target)
           /\ UpdateEffect(result'.tname, result'.target, result'.vals))]_vars

\* However update({rowid: X}, V) ends it changes nothing but the row X, and
\* when the engine executed the UPDATE the row X is as C10 says.
UpdateScoped ==
    [][(/\ result'.op = "update"
        /\ result'.nargs = 2
        /\ result'.target # None)
       => (/\ UpdateFrame(result'.tname, result'.target)
           /\ (result'.status = "ok" =>
                 UpdateEffect(result'.tname, result'.target, result'.vals))
           /\ (result'.status # "ok" => tables' = tables))]_vars

UpdateScopedWitness ==
    /\ result.op = "update"
    /\ result.status = "ok"
    /\ result.tname = "employee"
    /\ result.target = 1
    /\ result.vals = <<<<"name", 1>>>>
    /\ result.rowcount = 1
    /\ \E r \in tables["employee"] : r.rowid = 1 /\ r.name = 1 /\ r.awesome = 0
    /\ \E r \in tables["employee"] : r.rowid = 2 /\ r.name = 0 /\ r.awesome = 0
    /\ tables["address"] # {}

\* The rows of the table that hold the value the last lookup asked for.
LookupMatches ==
    {r \in tables[result.tname] : r[result.vals[1][1]] = result.vals[1][2]}

\* C11: on a table with a primary-key column, GetBy<c>(v) of a column that
\* is not unique returns a sequence of row identifiers as long as the number
\* of rows that hold c = v now, the empty sequence exactly when no row
\* matches, after any inserts, updates and deletes.
C11_LookupAsStated ==
    result.op = "GetBy" =>
        /\ result.status = "ok"
        /\ result.rowcount = Cardinality(LookupMatches)
        /\ result.rows = RowIds(LookupMatches)
        /\ (result.rowcount = 0 <=> LookupMatches = {})

\* What does hold of a lookup: a sequence that is not empty is the matching
\* rowids, each once; and under the default key name no lookup raises.
LookupSound ==
    result.op = "GetBy" =>
        /\ (result.status = "ok" /\ result.rowcount > 0) =>
              /\ result.rows = RowIds(LookupMatches)
              /\ result.rowcount = Cardinality(LookupMatches)
        /\ pkey[result.tname] = "rowid" => result.status = "ok"

LookupSoundWitness ==
    /\ result.op = "GetBy"
    /\ result.status = "ok"
    /\ result.rowcount = 2
    /\ Cardinality(tables[result.tname]) = 2

====
